---- MODULE Spec2Model ----
(***************************************************************************)
(* Model of fakepy_mcp.py: the adaptation layer that exposes fake.py       *)
(* provider methods as MCP tools.                                          *)
(*                                                                         *)
(* Native Python values are records [t |-> <type name>, v |-> <payload>].  *)
(* Text (str) payloads are sequences of one-character strings, byte        *)
(* payloads are sequences of 0..255, so that conversions are computed.     *)
(***************************************************************************)
EXTENDS Integers, Sequences, FiniteSets, TLC

VARIABLES
    providers,   \* PROVIDER_LIST with what FAKER holds under each name
    mcpAttrs,    \* attribute names of the MCP object (what hasattr(MCP, .) sees)
    tools,       \* MCP.tool(name=..)(tool_fn) calls made so far, in order
    pass,        \* number of register_fakepy_tools() runs started
    inv,         \* outcome of the latest wrapper invocation
    ser,         \* the latest direct applications of serialise_result to one name
    typchk,      \* the latest direct application of is_supported_type
    ret,         \* the latest direct application of get_return_type
    run,         \* where one run of the process stands: import, main(), serving
    threads      \* wrapper invocations in flight, one per serving thread

vars == <<providers, mcpAttrs, tools, pass, inv, ser, typchk, ret, run, threads>>

----------------------------------------------------------------------------
(* Bounds *)

MaxPasses == 2      \* runs of register_fakepy_tools()
MaxArgs == 3        \* positional arguments of one invocation
MaxParams == 2      \* declared parameters of a drawn signature
MaxArms == 3        \* arms of a drawn Union type
MaxBytes == 3       \* length of a drawn byte sequence
MaxThreads == 2     \* wrapper invocations in flight at once

----------------------------------------------------------------------------
(* Native values *)

PyStr(s)      == [t |-> "str", v |-> s]
PyInt(n)      == [t |-> "int", v |-> n]
PyFloat(n)    == [t |-> "float", v |-> n]          \* n tenths: PyFloat(11) is 1.1
PyBool(b)     == [t |-> "bool", v |-> b]
PyNone        == [t |-> "NoneType", v |-> 0]
PyBytes(s)    == [t |-> "bytes", v |-> s]
PyByteArray(s) == [t |-> "bytearray", v |-> s]
PyDate(y, m, d) == [t |-> "date", v |-> <<y, m, d>>]
PyDateTime(y, mo, d, h, mi, s, us) == [t |-> "datetime", v |-> <<y, mo, d, h, mi, s, us>>]
PyUuid(h)     == [t |-> "UUID", v |-> h]           \* h: 32 hex digits, 0..15 each
PyTuple(s)    == [t |-> "tuple", v |-> s]
PyList(s)     == [t |-> "list", v |-> s]

RECURSIVE Concat(_)
Concat(ss) == IF Len(ss) = 0 THEN <<>> ELSE Head(ss) \o Concat(Tail(ss))

DigitChars == <<"0", "1", "2", "3", "4", "5", "6", "7", "8", "9">>
HexChars == DigitChars \o <<"a", "b", "c", "d", "e", "f">>

RECURSIVE Zfill(_, _)
Zfill(n, w) == IF w = 0 THEN <<>> ELSE Zfill(n \div 10, w - 1) \o <<DigitChars[(n % 10) + 1]>>

RECURSIVE NatStr(_)
NatStr(n) == IF n < 10 THEN <<DigitChars[n + 1]>> ELSE NatStr(n \div 10) \o <<DigitChars[(n % 10) + 1]>>

IntStr(n) == IF n < 0 THEN <<"-">> \o NatStr(0 - n) ELSE NatStr(n)

HexStr(h) == [i \in 1..Len(h) |-> HexChars[h[i] + 1]]

\* printable ASCII bytes the model uses
AsciiChar(b) == CASE b = 104 -> "h" [] b = 105 -> "i" [] OTHER -> "?"
IsPrintable(b) == b \in {104, 105}

ByteRepr(b) == IF IsPrintable(b) THEN <<AsciiChar(b)>>
               ELSE <<"\\", "x", HexChars[(b \div 16) + 1], HexChars[(b % 16) + 1]>>

BytesRepr(s) == <<"b", "'">> \o Concat([i \in 1..Len(s) |-> ByteRepr(s[i])]) \o <<"'">>

\* date.isoformat() / datetime.isoformat()
isoformat(x) ==
    IF x.t = "date"
    THEN Zfill(x.v[1], 4) \o <<"-">> \o Zfill(x.v[2], 2) \o <<"-">> \o Zfill(x.v[3], 2)
    ELSE Zfill(x.v[1], 4) \o <<"-">> \o Zfill(x.v[2], 2) \o <<"-">> \o Zfill(x.v[3], 2)
         \o <<"T">> \o Zfill(x.v[4], 2) \o <<":">> \o Zfill(x.v[5], 2) \o <<":">> \o Zfill(x.v[6], 2)
         \o (IF x.v[7] # 0 THEN <<".">> \o Zfill(x.v[7], 6) ELSE <<>>)

hasattr_isoformat(x) == x.t \in {"date", "datetime"}

\* repr() of the element types the model puts in tuples and lists
pyrepr(x) ==
    CASE x.t = "int" -> IntStr(x.v)
      [] x.t = "float" -> IntStr(x.v \div 10) \o <<".">> \o <<DigitChars[(x.v % 10) + 1]>>
      [] x.t = "str" -> <<"'">> \o x.v \o <<"'">>
      [] x.t = "bool" -> IF x.v THEN <<"T", "r", "u", "e">> ELSE <<"F", "a", "l", "s", "e">>
      [] OTHER -> <<"N", "o", "n", "e">>

RECURSIVE JoinRepr(_)
JoinRepr(s) == IF Len(s) = 0 THEN <<>>
               ELSE IF Len(s) = 1 THEN pyrepr(s[1])
               ELSE pyrepr(s[1]) \o <<",", " ">> \o JoinRepr(Tail(s))

\* str(x)
pystr(x) ==
    CASE x.t = "str" -> x.v
      [] x.t \in {"int", "float", "bool", "NoneType"} -> pyrepr(x)
      [] x.t = "bytes" -> BytesRepr(x.v)
      [] x.t = "bytearray" ->
            <<"b", "y", "t", "e", "a", "r", "r", "a", "y", "(">> \o BytesRepr(x.v) \o <<")">>
      [] x.t = "UUID" ->
            HexStr(SubSeq(x.v, 1, 8)) \o <<"-">> \o HexStr(SubSeq(x.v, 9, 12)) \o <<"-">>
            \o HexStr(SubSeq(x.v, 13, 16)) \o <<"-">> \o HexStr(SubSeq(x.v, 17, 20)) \o <<"-">>
            \o HexStr(SubSeq(x.v, 21, 32))
      [] x.t = "date" -> isoformat(x)
      [] x.t = "datetime" ->
            Zfill(x.v[1], 4) \o <<"-">> \o Zfill(x.v[2], 2) \o <<"-">> \o Zfill(x.v[3], 2)
            \o <<" ">> \o Zfill(x.v[4], 2) \o <<":">> \o Zfill(x.v[5], 2) \o <<":">> \o Zfill(x.v[6], 2)
            \o (IF x.v[7] # 0 THEN <<".">> \o Zfill(x.v[7], 6) ELSE <<>>)
      [] x.t = "tuple" ->
            <<"(">> \o JoinRepr(x.v) \o (IF Len(x.v) = 1 THEN <<",">> ELSE <<>>) \o <<")">>
      [] OTHER -> <<"[">> \o JoinRepr(x.v) \o <<"]">>

\* base64.b64encode(b).decode("ascii")
B64Alphabet ==
    <<"A", "B", "C", "D", "E", "F", "G", "H", "I", "J", "K", "L", "M",
      "N", "O", "P", "Q", "R", "S", "T", "U", "V", "W", "X", "Y", "Z",
      "a", "b", "c", "d", "e", "f", "g", "h", "i", "j", "k", "l", "m",
      "n", "o", "p", "q", "r", "s", "t", "u", "v", "w", "x", "y", "z",
      "0", "1", "2", "3", "4", "5", "6", "7", "8", "9", "+", "/">>

RECURSIVE b64encode(_)
b64encode(b) ==
    IF Len(b) = 0 THEN <<>>
    ELSE IF Len(b) = 1 THEN
        <<B64Alphabet[(b[1] \div 4) + 1], B64Alphabet[((b[1] % 4) * 16) + 1], "=", "=">>
    ELSE IF Len(b) = 2 THEN
        <<B64Alphabet[(b[1] \div 4) + 1],
          B64Alphabet[((b[1] % 4) * 16) + (b[2] \div 16) + 1],
          B64Alphabet[((b[2] % 16) * 4) + 1], "=">>
    ELSE
        <<B64Alphabet[(b[1] \div 4) + 1],
          B64Alphabet[((b[1] % 4) * 16) + (b[2] \div 16) + 1],
          B64Alphabet[((b[2] % 16) * 4) + (b[3] \div 64) + 1],
          B64Alphabet[(b[3] % 64) + 1]>> \o b64encode(SubSeq(b, 4, Len(b)))

\* list(x): the elements of an iterable
IsIterable(x) == x.t \in {"tuple", "list", "str", "bytes", "bytearray"}

pylist(x) ==
    CASE x.t \in {"tuple", "list"} -> x.v
      [] x.t = "str" -> [i \in 1..Len(x.v) |-> PyStr(<<x.v[i]>>)]
      [] OTHER -> [i \in 1..Len(x.v) |-> PyInt(x.v[i])]

----------------------------------------------------------------------------
(* Outcomes of a call: a returned value or a raised exception *)

NoErr == [kind |-> "", msg |-> <<>>]
Returned(v) == [ok |-> TRUE, val |-> v, err |-> NoErr]
Raised(k, m) == [ok |-> FALSE, val |-> PyNone, err |-> [kind |-> k, msg |-> m]]

----------------------------------------------------------------------------
(* serialise_result *)

BINARY_NAMES == {"bmp", "docx", "eml", "epub", "gif", "jpg", "odt", "pdf", "png", "ppm",
                 "rtf", "svg", "tar", "tif", "wav", "zip"}

\* serialise_rule without the base64 branch
serialise_rule_no_base64(name, result) ==
    IF name \in BINARY_NAMES THEN "verbatim"
    ELSE IF name = "uuid" THEN "str"
    ELSE IF name = "date" THEN
        IF hasattr_isoformat(result) THEN "isoformat" ELSE "str"
    ELSE IF name = "date_time" THEN
        IF hasattr_isoformat(result) THEN "isoformat" ELSE "str"
    ELSE IF name = "latitude_longitude" THEN "list"
    ELSE "verbatim"

\* serialise_rule with uuid converted only when the value is a UUID
serialise_rule_uuid_typed(name, result) ==
    IF name \in BINARY_NAMES THEN
        IF result.t = "bytes" THEN "base64" ELSE "verbatim"
    ELSE IF name = "uuid" THEN
        IF result.t = "UUID" THEN "str" ELSE "verbatim"
    ELSE IF name = "date" THEN
        IF hasattr_isoformat(result) THEN "isoformat" ELSE "str"
    ELSE IF name = "date_time" THEN
        IF hasattr_isoformat(result) THEN "isoformat" ELSE "str"
    ELSE IF name = "latitude_longitude" THEN "list"
    ELSE "verbatim"

\* the branch of serialise_result that (name, result) takes
serialise_rule(name, result) ==
    IF name \in BINARY_NAMES THEN
        IF result.t = "bytes" THEN "base64" ELSE "verbatim"
    ELSE IF name = "uuid" THEN "str"
    ELSE IF name = "date" THEN
        IF hasattr_isoformat(result) THEN "isoformat" ELSE "str"
    ELSE IF name = "date_time" THEN
        IF hasattr_isoformat(result) THEN "isoformat" ELSE "str"
    ELSE IF name = "latitude_longitude" THEN "list"
    ELSE "verbatim"

\* apply_rule with the bytes decoded as text instead of base64-encoded
apply_rule_decode_only(rule, result) ==
    CASE rule = "base64" -> Returned(PyStr([i \in 1..Len(result.v) |-> AsciiChar(result.v[i])]))
      [] rule = "str" -> Returned(PyStr(pystr(result)))
      [] rule = "isoformat" -> Returned(PyStr(isoformat(result)))
      [] rule = "list" ->
            IF IsIterable(result) THEN Returned(PyList(pylist(result)))
            ELSE Raised("TypeError", <<"'", result.t, "' object is not iterable">>)
      [] OTHER -> Returned(result)

\* apply_rule with str() in place of isoformat()
apply_rule_str_for_iso(rule, result) ==
    CASE rule = "base64" -> Returned(PyStr(b64encode(result.v)))
      [] rule = "str" -> Returned(PyStr(pystr(result)))
      [] rule = "isoformat" -> Returned(PyStr(pystr(result)))
      [] rule = "list" ->
            IF IsIterable(result) THEN Returned(PyList(pylist(result)))
            ELSE Raised("TypeError", <<"'", result.t, "' object is not iterable">>)
      [] OTHER -> Returned(result)

\* the return expression of that branch
apply_rule(rule, result) ==
    CASE rule = "base64" -> Returned(PyStr(b64encode(result.v)))
      [] rule = "str" -> Returned(PyStr(pystr(result)))
      [] rule = "isoformat" -> Returned(PyStr(isoformat(result)))
      [] rule = "list" ->
            IF IsIterable(result) THEN Returned(PyList(pylist(result)))
            ELSE Raised("TypeError", <<"'", result.t, "' object is not iterable">>)
      [] OTHER -> Returned(result)

serialise_result(name, result) == apply_rule(serialise_rule(name, result), result)

----------------------------------------------------------------------------
(* Declared types (annotations) as typing sees them: get_origin and get_args *)

Cls(c) == [origin |-> "", cls |-> c, args |-> <<>>]
Alias(o, a) == [origin |-> o, cls |-> "", args |-> a]     \* List[int], Union[int, None], ...
EmptyAnnotation == Cls("Parameter.empty")

get_origin(typ) == typ.origin
get_args(typ) == typ.args

_SIMPLE_TYPES == {Cls("int"), Cls("str"), Cls("float"), Cls("bool")}

\* is_supported_type taking the first arm of an Optional as the other type
is_supported_type_first_arm(typ) ==
    LET origin == get_origin(typ) IN
    IF origin = "Union" THEN
        LET args == get_args(typ) IN
        IF Len(args) = 2 /\ Cls("NoneType") \in {args[1], args[2]} THEN
            args[1] \in _SIMPLE_TYPES
        ELSE FALSE
    ELSE typ \in _SIMPLE_TYPES

is_supported_type(typ) ==
    LET origin == get_origin(typ) IN
    IF origin = "Union" THEN
        LET args == get_args(typ) IN
        IF Len(args) = 2 /\ Cls("NoneType") \in {args[1], args[2]} THEN
            LET other == IF args[2] = Cls("NoneType") THEN args[1] ELSE args[2] IN
            other \in _SIMPLE_TYPES
        ELSE FALSE
    ELSE typ \in _SIMPLE_TYPES

----------------------------------------------------------------------------
(* Parameters and signatures (inspect.Parameter, inspect.Signature) *)

Empty == [t |-> "Parameter.empty", v |-> 0]     \* inspect.Parameter.empty as a default

Param(n, k, a, d) == [name |-> n, kind |-> k, annotation |-> a, default |-> d]

\* str.lower() on the parameter names the model uses
lower(n) == IF n \in {"Options", "OPTIONS"} THEN "options" ELSE n

\* supported_from comparing the name with "options" without lowercasing it
RECURSIVE supported_from_case_sensitive(_, _, _)
supported_from_case_sensitive(parameters, i, supported) ==
    IF i > Len(parameters) THEN supported
    ELSE LET param == parameters[i] IN
         IF param.kind \in {"VAR_POSITIONAL", "VAR_KEYWORD"}
         THEN supported_from_case_sensitive(parameters, i + 1, supported)
         ELSE IF param.name \in {"options"}
         THEN supported_from_case_sensitive(parameters, i + 1, supported)
         ELSE IF param.annotation = EmptyAnnotation
         THEN supported_from_case_sensitive(parameters, i + 1, supported)
         ELSE IF ~is_supported_type(param.annotation)
         THEN supported_from_case_sensitive(parameters, i + 1, supported)
         ELSE supported_from_case_sensitive(parameters, i + 1, Append(supported, param))

\* supported_from inserting each supported parameter at the front
RECURSIVE supported_from_prepend(_, _, _)
supported_from_prepend(parameters, i, supported) ==
    IF i > Len(parameters) THEN supported
    ELSE LET param == parameters[i] IN
         IF param.kind \in {"VAR_POSITIONAL", "VAR_KEYWORD"}
         THEN supported_from_prepend(parameters, i + 1, supported)
         ELSE IF lower(param.name) \in {"options"}
         THEN supported_from_prepend(parameters, i + 1, supported)
         ELSE IF param.annotation = EmptyAnnotation
         THEN supported_from_prepend(parameters, i + 1, supported)
         ELSE IF ~is_supported_type(param.annotation)
         THEN supported_from_prepend(parameters, i + 1, supported)
         ELSE supported_from_prepend(parameters, i + 1, <<param>> \o supported)

RECURSIVE supported_from(_, _, _)
supported_from(parameters, i, supported) ==
    IF i > Len(parameters) THEN supported
    ELSE LET param == parameters[i] IN
         IF param.kind \in {"VAR_POSITIONAL", "VAR_KEYWORD"}
         THEN supported_from(parameters, i + 1, supported)
         ELSE IF lower(param.name) \in {"options"}
         THEN supported_from(parameters, i + 1, supported)
         ELSE IF param.annotation = EmptyAnnotation
         THEN supported_from(parameters, i + 1, supported)
         ELSE IF ~is_supported_type(param.annotation)
         THEN supported_from(parameters, i + 1, supported)
         ELSE supported_from(parameters, i + 1, Append(supported, param))

get_supported_params(sig) == supported_from(sig, 1, <<>>)

----------------------------------------------------------------------------
(* get_return_type *)

\* name.endswith("_file") on the provider names the model uses
endswith_file(name) == name \in {"png_file", "pdf_file", "txt_file"}

\* get_return_type without the integer branch
get_return_type_no_int(name) ==
    IF name \in BINARY_NAMES THEN "str"
    ELSE IF endswith_file(name) THEN "str"
    ELSE IF name \in {"latitude_longitude"} THEN "List[float]"
    ELSE IF name \in {"first_names", "last_names", "names", "usernames", "paragraphs",
                      "sentences", "slugs", "texts", "words"} THEN "List[str]"
    ELSE IF name \in {"latitude", "longitude"} THEN "float"
    ELSE IF name \in {"pybool"} THEN "bool"
    ELSE "str"

get_return_type(name) ==
    IF name \in {"bmp", "docx", "eml", "epub", "gif", "jpg", "odt", "pdf", "png", "ppm",
                 "rtf", "svg", "tar", "tif", "wav", "zip"} THEN "str"
    ELSE IF endswith_file(name) THEN "str"
    ELSE IF name \in {"latitude_longitude"} THEN "List[float]"
    ELSE IF name \in {"first_names", "last_names", "names", "usernames", "paragraphs",
                      "sentences", "slugs", "texts", "words"} THEN "List[str]"
    ELSE IF name \in {"uuid"} THEN "str"
    ELSE IF name \in {"date"} THEN "str"
    ELSE IF name \in {"date_time"} THEN "str"
    ELSE IF name \in {"latitude", "longitude"} THEN "float"
    ELSE IF name \in {"pybool"} THEN "bool"
    ELSE IF name \in {"pyint", "year"} THEN "int"
    ELSE "str"

----------------------------------------------------------------------------
(* register_fakepy_tools *)

\* one entry of PROVIDER_LIST with getattr(FAKER, attr): is it callable, its signature
Provider(n, c, sig) == [name |-> n, callable |-> c, parameters |-> sig]

\* attr.startswith("_") on the provider names the model uses
startswith_underscore(attr) == attr \in {"_seed", "_private"}

\* what MCP.tool(name=attr, description=doc)(tool_fn) receives
Adapter(p) == [name |-> p.name,
               generated |-> TRUE,
               declared |-> p.parameters,
               params |-> get_supported_params(p.parameters),
               return_type |-> get_return_type(p.name)]

hasattr(attrs, attr) == attr \in attrs

RECURSIVE register_from(_, _, _, _)
register_from(plist, i, attrs, registered) ==
    IF i > Len(plist) THEN registered
    ELSE LET p == plist[i] IN
         IF startswith_underscore(p.name) THEN register_from(plist, i + 1, attrs, registered)
         ELSE IF ~p.callable THEN register_from(plist, i + 1, attrs, registered)
         ELSE IF hasattr(attrs, p.name) THEN register_from(plist, i + 1, attrs, registered)
         ELSE register_from(plist, i + 1, attrs, Append(registered, Adapter(p)))

ServerInfoTool == [name |-> "server_info", generated |-> FALSE, declared |-> <<>>,
                   params |-> <<>>, return_type |-> "Dict[str, Any]"]

----------------------------------------------------------------------------
(* The generated wrapper, make_tool_fn(...).tool_fn *)

EmptyDict == [n \in {} |-> PyNone]

\* the except clause: Exception and its subclasses are caught, the other
\* BaseException subclasses are not
BaseOnlyKinds == {"KeyboardInterrupt", "SystemExit", "GeneratorExit"}
IsException(kind) == kind \notin BaseOnlyKinds

\* bind_from with the positional argument taken before the named one
RECURSIVE bind_from_positional_first(_, _, _, _, _)
bind_from_positional_first(params, i, args, kwargs, call_kwargs) ==
    IF i > Len(params) THEN [ok |-> TRUE, call_kwargs |-> call_kwargs, missing |-> ""]
    ELSE LET name == params[i].name IN
         IF i - 1 < Len(args)
         THEN bind_from_positional_first(params, i + 1, args, kwargs, (name :> args[i]) @@ call_kwargs)
         ELSE IF name \in DOMAIN kwargs
         THEN bind_from_positional_first(params, i + 1, args, kwargs, (name :> kwargs[name]) @@ call_kwargs)
         ELSE IF params[i].default # Empty
         THEN bind_from_positional_first(params, i + 1, args, kwargs, (name :> params[i].default) @@ call_kwargs)
         ELSE [ok |-> FALSE, call_kwargs |-> call_kwargs, missing |-> name]

\* bind_from with an unresolved parameter bound to None instead of raising
RECURSIVE bind_from_none_for_missing(_, _, _, _, _)
bind_from_none_for_missing(params, i, args, kwargs, call_kwargs) ==
    IF i > Len(params) THEN [ok |-> TRUE, call_kwargs |-> call_kwargs, missing |-> ""]
    ELSE LET name == params[i].name IN
         IF name \in DOMAIN kwargs
         THEN bind_from_none_for_missing(params, i + 1, args, kwargs, (name :> kwargs[name]) @@ call_kwargs)
         ELSE IF i - 1 < Len(args)
         THEN bind_from_none_for_missing(params, i + 1, args, kwargs, (name :> args[i]) @@ call_kwargs)
         ELSE IF params[i].default # Empty
         THEN bind_from_none_for_missing(params, i + 1, args, kwargs, (name :> params[i].default) @@ call_kwargs)
         ELSE bind_from_none_for_missing(params, i + 1, args, kwargs, (name :> PyNone) @@ call_kwargs)

\* bind_from with a named argument counted as supplied only when it is not None
RECURSIVE bind_from_null_as_absent(_, _, _, _, _)
bind_from_null_as_absent(params, i, args, kwargs, call_kwargs) ==
    IF i > Len(params) THEN [ok |-> TRUE, call_kwargs |-> call_kwargs, missing |-> ""]
    ELSE LET name == params[i].name IN
         IF name \in DOMAIN kwargs /\ kwargs[name] # PyNone
         THEN bind_from_null_as_absent(params, i + 1, args, kwargs, (name :> kwargs[name]) @@ call_kwargs)
         ELSE IF i - 1 < Len(args)
         THEN bind_from_null_as_absent(params, i + 1, args, kwargs, (name :> args[i]) @@ call_kwargs)
         ELSE IF params[i].default # Empty
         THEN bind_from_null_as_absent(params, i + 1, args, kwargs, (name :> params[i].default) @@ call_kwargs)
         ELSE [ok |-> FALSE, call_kwargs |-> call_kwargs, missing |-> name]

\* for i, (name, param) in enumerate(params): ... (i is 1-based here)
RECURSIVE bind_from(_, _, _, _, _)
bind_from(params, i, args, kwargs, call_kwargs) ==
    IF i > Len(params) THEN [ok |-> TRUE, call_kwargs |-> call_kwargs, missing |-> ""]
    ELSE LET name == params[i].name IN
         IF name \in DOMAIN kwargs
         THEN bind_from(params, i + 1, args, kwargs, (name :> kwargs[name]) @@ call_kwargs)
         ELSE IF i - 1 < Len(args)
         THEN bind_from(params, i + 1, args, kwargs, (name :> args[i]) @@ call_kwargs)
         ELSE IF params[i].default # Empty
         THEN bind_from(params, i + 1, args, kwargs, (name :> params[i].default) @@ call_kwargs)
         ELSE [ok |-> FALSE, call_kwargs |-> call_kwargs, missing |-> name]

\* guarded_call with the caught exception logged and raised again as it is
guarded_call_reraise(attr, beh) ==
    LET res == IF beh.ok THEN serialise_result(attr, beh.val) ELSE beh IN
    IF res.ok THEN [out |-> res, logs |-> <<>>]
    ELSE IF IsException(res.err.kind)
    THEN [out |-> res, logs |-> << <<"Error in ", attr, "(): ">> \o res.err.msg >>]
    ELSE [out |-> res, logs |-> <<>>]

\* guarded_call with serialise_result applied after the try statement
guarded_call_serialise_outside(attr, beh) ==
    IF beh.ok THEN [out |-> serialise_result(attr, beh.val), logs |-> <<>>]
    ELSE IF IsException(beh.err.kind)
    THEN [out |-> Raised("RuntimeError", <<"fake.py error in ", attr, "(): ">> \o beh.err.msg),
          logs |-> << <<"Error in ", attr, "(): ">> \o beh.err.msg >>]
    ELSE [out |-> beh, logs |-> <<>>]

\* try: result = method(..); return serialise_result(attr, result)
\* except Exception as e: LOGGER.error(..); raise RuntimeError(..)
\* beh is what the underlying callable does when called
guarded_call(attr, beh) ==
    LET res == IF beh.ok THEN serialise_result(attr, beh.val) ELSE beh IN
    IF res.ok THEN [out |-> res, logs |-> <<>>]
    ELSE IF IsException(res.err.kind)
    THEN [out |-> Raised("RuntimeError", <<"fake.py error in ", attr, "(): ">> \o res.err.msg),
          logs |-> << <<"Error in ", attr, "(): ">> \o res.err.msg >>]
    ELSE [out |-> res, logs |-> <<>>]

NoInv == [tool |-> "", params |-> <<>>, args |-> <<>>, kwargs |-> EmptyDict,
          beh |-> Returned(PyNone), calls |-> 0, call_kwargs |-> EmptyDict,
          out |-> Returned(PyNone), logs |-> <<>>]

\* tool_fn_params with attr read from the loop variable when the wrapper runs
\* (the last name of PROVIDER_LIST) instead of from make_tool_fn's argument
tool_fn_params_late_attr(ad, args, kwargs, beh) ==
    LET b == bind_from(ad.params, 1, args, kwargs, EmptyDict) IN
    IF ~b.ok
    THEN [tool |-> ad.name, params |-> ad.params, args |-> args, kwargs |-> kwargs,
          beh |-> beh, calls |-> 0, call_kwargs |-> EmptyDict,
          out |-> Raised("TypeError", <<"Missing required argument: ", b.missing>>),
          logs |-> <<>>]
    ELSE LET g == guarded_call(providers[Len(providers)].name, beh) IN
         [tool |-> ad.name, params |-> ad.params, args |-> args, kwargs |-> kwargs,
          beh |-> beh, calls |-> 1, call_kwargs |-> b.call_kwargs,
          out |-> g.out, logs |-> g.logs]

\* the wrapper of an adapter with admissible parameters
tool_fn_params(ad, args, kwargs, beh) ==
    LET b == bind_from(ad.params, 1, args, kwargs, EmptyDict) IN
    IF ~b.ok
    THEN [tool |-> ad.name, params |-> ad.params, args |-> args, kwargs |-> kwargs,
          beh |-> beh, calls |-> 0, call_kwargs |-> EmptyDict,
          out |-> Raised("TypeError", <<"Missing required argument: ", b.missing>>),
          logs |-> <<>>]
    ELSE LET g == guarded_call(ad.name, beh) IN
         [tool |-> ad.name, params |-> ad.params, args |-> args, kwargs |-> kwargs,
          beh |-> beh, calls |-> 1, call_kwargs |-> b.call_kwargs,
          out |-> g.out, logs |-> g.logs]

\* the wrapper of an adapter without admissible parameters: def tool_fn()
tool_fn_noparams(ad, args, kwargs, beh) ==
    IF Len(args) > 0 \/ DOMAIN kwargs # {}
    THEN [tool |-> ad.name, params |-> ad.params, args |-> args, kwargs |-> kwargs,
          beh |-> beh, calls |-> 0, call_kwargs |-> EmptyDict,
          out |-> Raised("TypeError", <<"tool_fn() takes 0 positional arguments">>),
          logs |-> <<>>]
    ELSE LET g == guarded_call(ad.name, beh) IN
         [tool |-> ad.name, params |-> ad.params, args |-> args, kwargs |-> kwargs,
          beh |-> beh, calls |-> 1, call_kwargs |-> EmptyDict,
          out |-> g.out, logs |-> g.logs]

tool_fn(ad, args, kwargs, beh) ==
    IF Len(ad.params) > 0 THEN tool_fn_params(ad, args, kwargs, beh)
    ELSE tool_fn_noparams(ad, args, kwargs, beh)

----------------------------------------------------------------------------
(* Inputs *)

POK == "POSITIONAL_OR_KEYWORD"
KWO == "KEYWORD_ONLY"
Optional(c) == Alias("Union", <<Cls(c), Cls("NoneType")>>)

\* what the underlying callables may return
NativeValues ==
    {PyBytes(<<>>), PyBytes(<<255>>), PyBytes(<<104, 105>>), PyBytes(<<0, 255, 104>>),
     PyByteArray(<<104>>),
     PyStr(<<"a", "b">>), PyInt(5), PyFloat(11), PyBool(TRUE), PyNone,
     PyDate(2024, 1, 2), PyDateTime(2024, 1, 2, 3, 4, 5, 0), PyDateTime(2024, 1, 2, 3, 4, 5, 7),
     PyUuid(<<1, 2, 3, 4, 5, 6, 7, 8, 9, 10, 11, 12, 13, 14, 15, 0,
              1, 2, 3, 4, 5, 6, 7, 8, 9, 10, 11, 12, 13, 14, 15, 0>>),
     PyTuple(<<PyFloat(11), PyFloat(22)>>), PyTuple(<<PyBool(TRUE), PyNone>>),
     PyList(<<PyStr(<<"a">>), PyStr(<<"b">>)>>)}

\* what the underlying callables may raise
NativeRaises ==
    {Raised("ValueError", <<"boom">>), Raised("KeyError", <<"'k'">>),
     Raised("KeyboardInterrupt", <<>>)}

Behaviours == {Returned(v) : v \in NativeValues} \cup NativeRaises

PositionalVals == {PyInt(1), PyInt(2)}
NamedVals == {PyInt(7), PyNone}

RECURSIVE SeqsUpTo(_, _)
SeqsUpTo(S, n) ==
    IF n = 0 THEN {<<>>}
    ELSE LET shorter == SeqsUpTo(S, n - 1) IN
         shorter \cup {Append(q, x) : q \in {r \in shorter : Len(r) = n - 1}, x \in S}

Dicts(K, V) == UNION {[D -> V] : D \in SUBSET K}

\* the names a caller may pass by keyword: the declared ones and a stray one
KwNames(ad) == {ad.declared[i].name : i \in 1..Len(ad.declared)} \cup {"extra"}

\* PROVIDER_LIST (sorted) with what FAKER holds under each name
FakerProviders ==
    <<Provider("_seed", TRUE, <<>>),
      Provider("date", TRUE,
               <<Param("start_date", POK, Cls("str"), PyStr(<<"-", "7", "d">>))>>),
      Provider("date_time", TRUE, <<>>),
      Provider("latitude_longitude", TRUE, <<>>),
      Provider("name", TRUE, <<>>),
      Provider("png", TRUE,
               <<Param("size", POK, Alias("tuple", <<Cls("int"), Cls("int")>>), PyNone),
                 Param("kwargs", "VAR_KEYWORD", EmptyAnnotation, Empty)>>),
      Provider("pyint", TRUE,
               <<Param("max_value", POK, Cls("int"), Empty),
                 Param("min_value", POK, Cls("int"), PyInt(0))>>),
      Provider("text", TRUE,
               <<Param("nb_chars", POK, Cls("int"), PyInt(200)),
                 Param("options", POK, Cls("dict"), PyNone),
                 Param("suffix", KWO, Optional("str"), Empty)>>),
      Provider("uuid", TRUE, <<>>),
      Provider("version", FALSE, <<>>)>>

\* attributes the FastMCP object has of its own: the server name it was built
\* with and the methods the module calls; MCP.tool(..)(tool_fn) adds none
FastMCPAttrs == {"name", "tool", "run"}

\* names serialise_result is applied to directly
SerNames == BINARY_NAMES \cup {"uuid", "date", "date_time", "latitude_longitude", "name", "words"}

\* values serialise_result is applied to directly
ByteVals == {0, 104, 255}
SerValues ==
    NativeValues
    \cup {PyBytes(q) : q \in SeqsUpTo(ByteVals, MaxBytes)}
    \cup {PyDate(1999, 12, 31), PyDate(5, 6, 7), PyDateTime(1999, 12, 31, 23, 59, 58, 0),
          PyTuple(<<PyFloat(905), PyInt(3)>>),
          PyUuid(<<15, 15, 0, 0, 10, 11, 12, 13, 14, 9, 8, 7, 6, 5, 4, 3,
                   2, 1, 0, 15, 14, 13, 12, 11, 10, 9, 8, 7, 6, 5, 4, 3>>)}

SerInput(name, a, b) == [name |-> name, a |-> a, b |-> b, done |-> FALSE,
                         outA |-> Returned(PyNone), outB |-> Returned(PyNone),
                         ruleA |-> "", ruleB |-> ""]
NoSer == SerInput("", PyNone, PyNone)

\* declared types is_supported_type is applied to
ArmTypes == {Cls("int"), Cls("str"), Cls("float"), Cls("bool"), Cls("NoneType"),
             Cls("list"), Alias("list", <<Cls("int")>>)}
IsInjective(q) == \A i, j \in 1..Len(q) : q[i] = q[j] => i = j
UnionTypes == {Alias("Union", q) : q \in {r \in SeqsUpTo(ArmTypes, MaxArms) : Len(r) >= 2 /\ IsInjective(r)}}
DeclaredTypes ==
    {Cls("int"), Cls("str"), Cls("float"), Cls("bool"), Cls("NoneType"), Cls("list"), Cls("dict"),
     Alias("list", <<Cls("int")>>), Alias("dict", <<Cls("str"), Cls("int")>>)} \cup UnionTypes

TypInput(t) == [typ |-> t, done |-> FALSE, supported |-> FALSE]
NoTypchk == TypInput(EmptyAnnotation)

\* callables get_return_type is applied to: a __name__ and a signature
RetNames ==
    BINARY_NAMES
    \cup {"png_file", "pdf_file", "txt_file", "latitude_longitude",
          "first_names", "last_names", "names", "usernames", "paragraphs",
          "sentences", "slugs", "texts", "words",
          "uuid", "date", "date_time", "latitude", "longitude", "pybool", "pyint", "year",
          "name", "email", "random", "pyfloat", "_seed"}
RetSignatures ==
    {<<>>, <<Param("a", POK, Cls("int"), Empty)>>, <<Param("b", KWO, Cls("str"), PyNone)>>}
Method(n, sig) == [name |-> n, parameters |-> sig]
RetInput(m) == [method |-> m, done |-> FALSE, tag |-> ""]
NoRet == RetInput(Method("", <<>>))

\* declared parameters a drawn signature is made of
ParamPool ==
    {Param("a", POK, Cls("int"), Empty),
     Param("a", POK, Optional("int"), PyNone),
     Param("a", POK, EmptyAnnotation, Empty),
     Param("b", KWO, Cls("str"), PyStr(<<"x">>)),
     Param("b", POK, Alias("Union", <<Cls("NoneType"), Cls("float")>>), PyNone),
     Param("b", POK, Alias("Union", <<Cls("int"), Cls("str")>>), Empty),
     Param("c", KWO, Cls("bool"), Empty),
     Param("c", POK, Optional("list"), PyNone),
     Param("c", POK, Alias("Union", <<Cls("int"), Cls("str"), Cls("NoneType")>>), PyNone),
     Param("d", POK, Alias("list", <<Cls("int")>>), Empty),
     Param("d", "POSITIONAL_ONLY", Cls("float"), Empty),
     Param("options", POK, Cls("int"), Empty),
     Param("Options", KWO, Cls("str"), PyNone),
     Param("OPTIONS", POK, Optional("bool"), PyNone),
     Param("args", "VAR_POSITIONAL", EmptyAnnotation, Empty),
     Param("args", "VAR_POSITIONAL", Cls("int"), Empty),
     Param("kwargs", "VAR_KEYWORD", Cls("str"), Empty)}

\* inspect.Signature: parameter names are distinct
Signatures ==
    {q \in SeqsUpTo(ParamPool, MaxParams) : \A i, j \in 1..Len(q) : q[i].name = q[j].name => i = j}

----------------------------------------------------------------------------
(* Actions *)

\* module import: MCP is built, register_fakepy_tools() runs, then
\* @MCP.tool() registers server_info
\* no run of the process as a server is being followed
NoRun == [pc |-> "none", idx |-> 0, transport |-> ""]

\* the start of a run: the module is being imported, the loop of
\* register_fakepy_tools() is at the first name of PROVIDER_LIST
RunStart == [pc |-> "registering", idx |-> 1, transport |-> ""]

TransportModes == {"stdio", "http", "sse"}

NoAdapter == [name |-> "", generated |-> FALSE, declared |-> <<>>,
              params |-> <<>>, return_type |-> ""]
IdleThread == [pc |-> "idle", ad |-> NoAdapter, rec |-> NoInv]
NoThreads == [t \in 1..MaxThreads |-> IdleThread]

import_module ==
    /\ pass = 0
    /\ tools' = Append(register_from(providers, 1, mcpAttrs, tools), ServerInfoTool)
    /\ pass' = 1
    /\ UNCHANGED <<providers, mcpAttrs, inv, ser, typchk, ret, run, threads>>

\* a later run of register_fakepy_tools()
register_fakepy_tools ==
    /\ pass >= 1
    /\ pass < MaxPasses
    /\ inv = NoInv
    /\ tools' = register_from(providers, 1, mcpAttrs, tools)
    /\ pass' = pass + 1
    /\ UNCHANGED <<providers, mcpAttrs, inv, ser, typchk, ret, run, threads>>

\* the dispatcher (or a test) calls a registered generated wrapper;
\* inv holds the outcome until the caller has taken it
Invoke ==
    /\ inv = NoInv
    /\ \E k \in DOMAIN tools :
         /\ tools[k].generated
         /\ \E args \in SeqsUpTo(PositionalVals, MaxArgs) :
            \E kwargs \in Dicts(KwNames(tools[k]), NamedVals) :
            \E beh \in Behaviours :
                inv' = tool_fn(tools[k], args, kwargs, beh)
    /\ UNCHANGED <<providers, mcpAttrs, tools, pass, ser, typchk, ret, run, threads>>

\* the caller takes the outcome of the invocation
Deliver ==
    /\ inv # NoInv
    /\ inv' = NoInv
    /\ UNCHANGED <<providers, mcpAttrs, tools, pass, ser, typchk, ret, run, threads>>

Init ==
    /\ providers = FakerProviders
    /\ mcpAttrs = FastMCPAttrs
    /\ tools = <<>>
    /\ pass = 0
    /\ inv = NoInv
    /\ ser = NoSer
    /\ typchk = NoTypchk
    /\ ret = NoRet
    /\ run = NoRun
    /\ threads = NoThreads

Next == import_module \/ register_fakepy_tools \/ Invoke \/ Deliver

Spec == Init /\ [][Next]_vars

\* serialise_result applied to two values under one name
Serialise ==
    /\ ~ser.done
    /\ ser' = [ser EXCEPT !.done = TRUE,
                           !.outA = serialise_result(ser.name, ser.a),
                           !.outB = serialise_result(ser.name, ser.b),
                           !.ruleA = serialise_rule(ser.name, ser.a),
                           !.ruleB = serialise_rule(ser.name, ser.b)]
    /\ UNCHANGED <<providers, mcpAttrs, tools, pass, inv, typchk, ret, run, threads>>

InitSer ==
    /\ providers = FakerProviders
    /\ mcpAttrs = FastMCPAttrs
    /\ tools = <<>>
    /\ pass = 0
    /\ inv = NoInv
    /\ ser \in {SerInput(n, a, b) : n \in SerNames, a \in SerValues, b \in NativeValues}
    /\ typchk = NoTypchk
    /\ ret = NoRet
    /\ run = NoRun
    /\ threads = NoThreads

NextSer == Serialise

SpecSer == InitSer /\ [][NextSer]_vars

\* is_supported_type applied to a declared type
CheckType ==
    /\ ~typchk.done
    /\ typchk' = [typchk EXCEPT !.done = TRUE, !.supported = is_supported_type(typchk.typ)]
    /\ UNCHANGED <<providers, mcpAttrs, tools, pass, inv, ser, ret, run, threads>>

InitType ==
    /\ providers = FakerProviders
    /\ mcpAttrs = FastMCPAttrs
    /\ tools = <<>>
    /\ pass = 0
    /\ inv = NoInv
    /\ ser = NoSer
    /\ typchk \in {TypInput(t) : t \in DeclaredTypes}
    /\ ret = NoRet
    /\ run = NoRun
    /\ threads = NoThreads

NextType == CheckType

SpecType == InitType /\ [][NextType]_vars

\* get_return_type applied to a callable
InferReturnType ==
    /\ ~ret.done
    /\ ret' = [ret EXCEPT !.done = TRUE, !.tag = get_return_type(ret.method.name)]
    /\ UNCHANGED <<providers, mcpAttrs, tools, pass, inv, ser, typchk, run, threads>>

InitRet ==
    /\ providers = FakerProviders
    /\ mcpAttrs = FastMCPAttrs
    /\ tools = <<>>
    /\ pass = 0
    /\ inv = NoInv
    /\ ser = NoSer
    /\ typchk = NoTypchk
    /\ ret \in {RetInput(Method(n, sig)) : n \in RetNames, sig \in RetSignatures}
    /\ run = NoRun
    /\ threads = NoThreads

NextRet == InferReturnType

SpecRet == InitRet /\ [][NextRet]_vars

\* registration of one provider whose signature is drawn
InitSig ==
    /\ providers \in {<<Provider("generic", TRUE, sig)>> : sig \in Signatures}
    /\ mcpAttrs = FastMCPAttrs
    /\ tools = <<>>
    /\ pass = 0
    /\ inv = NoInv
    /\ ser = NoSer
    /\ typchk = NoTypchk
    /\ ret = NoRet
    /\ run = NoRun
    /\ threads = NoThreads

NextSig == import_module \/ register_fakepy_tools

SpecSig == InitSig /\ [][NextSig]_vars

\* one run of the process: the import executes the module top to bottom
\* (the loop of register_fakepy_tools(), then @MCP.tool() server_info), then
\* main() hands control to MCP.run, which dispatches requests to the wrappers

\* one iteration of the loop over PROVIDER_LIST
register_fakepy_tools_step ==
    /\ run.pc = "registering"
    /\ run.idx <= Len(providers)
    /\ tools' = register_from(<<providers[run.idx]>>, 1, mcpAttrs, tools)
    /\ run' = [run EXCEPT !.idx = run.idx + 1]
    /\ pass' = IF run.idx = Len(providers) THEN pass + 1 ELSE pass
    /\ UNCHANGED <<providers, mcpAttrs, inv, ser, typchk, ret, threads>>

\* @MCP.tool() def server_info, the statement after the registration call
register_server_info ==
    /\ run.pc = "registering"
    /\ run.idx > Len(providers)
    /\ tools' = Append(tools, ServerInfoTool)
    /\ run' = [run EXCEPT !.pc = "imported"]
    /\ UNCHANGED <<providers, mcpAttrs, pass, inv, ser, typchk, ret, threads>>

\* main() with a transport mode
main_serving_early ==
    /\ run.pc \in {"registering", "imported"}
    /\ \E mode \in TransportModes :
         run' = [run EXCEPT !.pc = "serving", !.transport = mode]
    /\ UNCHANGED <<providers, mcpAttrs, tools, pass, inv, ser, typchk, ret, threads>>

\* main(): parse the mode, MCP.run(transport=mode, ...) or MCP.run()
main ==
    /\ run.pc = "imported"
    /\ \E mode \in TransportModes :
         run' = [run EXCEPT !.pc = "serving", !.transport = mode]
    /\ UNCHANGED <<providers, mcpAttrs, tools, pass, inv, ser, typchk, ret, threads>>

\* the serving dispatcher calls a registered wrapper for a request
Dispatch ==
    /\ run.pc = "serving"
    /\ Invoke

InitRun ==
    /\ providers = FakerProviders
    /\ mcpAttrs = FastMCPAttrs
    /\ tools = <<>>
    /\ pass = 0
    /\ inv = NoInv
    /\ ser = NoSer
    /\ typchk = NoTypchk
    /\ ret = NoRet
    /\ run = RunStart
    /\ threads = NoThreads

NextRun == register_fakepy_tools_step \/ register_server_info \/ main \/ Dispatch \/ Deliver

SpecRun == InitRun /\ [][NextRun]_vars

\* concurrent invocations: each serving thread runs a wrapper in three steps,
\* the binding loop, method(**call_kwargs), and the return through
\* serialise_result or the except clause; steps of different threads interleave

ConcTools == {"pyint", "uuid"}
ConcArgs == {<<>>, <<PyInt(1)>>}
ConcKwargs(ad) == {EmptyDict} \cup {(n :> PyInt(7)) : n \in KwNames(ad)}
ConcBehaviours == {Returned(PyInt(5)), Raised("ValueError", <<"boom">>)}

\* the binding table a thread hands to method(): one table for all threads
local_call_kwargs_shared(th, t) ==
    IF th[1].pc # "idle" THEN th[1].rec.call_kwargs ELSE th[t].rec.call_kwargs

\* the binding table a thread hands to method(): the call_kwargs = {} made by
\* this call of tool_fn and filled by its own loop
local_call_kwargs(th, t) == th[t].rec.call_kwargs

\* tool_fn up to the call of method: def tool_fn() takes no argument at all,
\* def tool_fn(*args, **kwargs) runs the binding loop
tool_fn_bind ==
    \E t \in 1..MaxThreads :
    \E k \in DOMAIN tools :
        /\ threads[t].pc = "idle"
        /\ tools[k].generated
        /\ tools[k].name \in ConcTools
        /\ \E args \in ConcArgs :
           \E kwargs \in ConcKwargs(tools[k]) :
              LET ad == tools[k]
                  rec0 == [tool |-> ad.name, params |-> ad.params, args |-> args,
                           kwargs |-> kwargs, beh |-> Returned(PyNone), calls |-> 0,
                           call_kwargs |-> EmptyDict, out |-> Returned(PyNone),
                           logs |-> <<>>]
                  b == bind_from(ad.params, 1, args, kwargs, EmptyDict)
              IN  threads' = [threads EXCEPT ![t] =
                    IF Len(ad.params) = 0
                    THEN IF Len(args) > 0 \/ DOMAIN kwargs # {}
                         THEN [pc |-> "done", ad |-> ad, rec |-> [rec0 EXCEPT
                                 !.out = Raised("TypeError",
                                                <<"tool_fn() takes 0 positional arguments">>)]]
                         ELSE [pc |-> "bound", ad |-> ad, rec |-> rec0]
                    ELSE IF ~b.ok
                         THEN [pc |-> "done", ad |-> ad, rec |-> [rec0 EXCEPT
                                 !.out = Raised("TypeError",
                                                <<"Missing required argument: ", b.missing>>)]]
                         ELSE [pc |-> "bound", ad |-> ad,
                               rec |-> [rec0 EXCEPT !.call_kwargs = b.call_kwargs]]]
    /\ UNCHANGED <<providers, mcpAttrs, tools, pass, inv, ser, typchk, ret, run>>

\* result = method(**call_kwargs), or method(): returns or raises
tool_fn_call ==
    \E t \in 1..MaxThreads :
    \E beh \in ConcBehaviours :
        /\ threads[t].pc = "bound"
        /\ threads' = [threads EXCEPT ![t].pc = "returned",
                                      ![t].rec.beh = beh,
                                      ![t].rec.calls = 1,
                                      ![t].rec.call_kwargs = local_call_kwargs(threads, t)]
    /\ UNCHANGED <<providers, mcpAttrs, tools, pass, inv, ser, typchk, ret, run>>

\* return serialise_result(attr, result), or the except clause
tool_fn_finish ==
    \E t \in 1..MaxThreads :
        /\ threads[t].pc = "returned"
        /\ LET g == guarded_call(threads[t].ad.name, threads[t].rec.beh) IN
           threads' = [threads EXCEPT ![t].pc = "done",
                                      ![t].rec.out = g.out,
                                      ![t].rec.logs = g.logs]
    /\ UNCHANGED <<providers, mcpAttrs, tools, pass, inv, ser, typchk, ret, run>>

\* the caller of a thread takes the outcome
TakeOutcome ==
    \E t \in 1..MaxThreads :
        /\ threads[t].pc = "done"
        /\ threads' = [threads EXCEPT ![t] = IdleThread]
    /\ UNCHANGED <<providers, mcpAttrs, tools, pass, inv, ser, typchk, ret, run>>

InitConc ==
    /\ providers = FakerProviders
    /\ mcpAttrs = FastMCPAttrs
    /\ tools = <<>>
    /\ pass = 0
    /\ inv = NoInv
    /\ ser = NoSer
    /\ typchk = NoTypchk
    /\ ret = NoRet
    /\ run = NoRun
    /\ threads = NoThreads

NextConc ==
    \/ import_module
    \/ register_fakepy_tools
    \/ tool_fn_bind
    \/ tool_fn_call
    \/ tool_fn_finish
    \/ TakeOutcome

SpecConc == InitConc /\ [][NextConc]_vars

----------------------------------------------------------------------------
(* Claims about the wrapper's argument binding *)

Invoked == inv.tool # ""
InvokedWithParams == Invoked /\ Len(inv.params) >= 1

ParamNames(params) == {params[i].name : i \in 1..Len(params)}
IsNamed(i) == inv.params[i].name \in DOMAIN inv.kwargs
HasDefault(i) == inv.params[i].default # Empty

\* parameters with no named argument, no positional argument at their own
\* position and no default
Unresolved == {i \in 1..Len(inv.params) : ~IsNamed(i) /\ i > Len(inv.args) /\ ~HasDefault(i)}
FirstUnresolved == CHOOSE i \in Unresolved : \A j \in Unresolved : i <= j

\* the binding as C1 states it: a positional argument is consumed only by a
\* parameter that was not supplied by name
UnnamedBefore(i) == Cardinality({j \in 1..(i - 1) : ~IsNamed(j)})
ConsumingValue(i) ==
    IF IsNamed(i) THEN inv.kwargs[inv.params[i].name]
    ELSE IF UnnamedBefore(i) + 1 <= Len(inv.args) THEN inv.args[UnnamedBefore(i) + 1]
    ELSE inv.params[i].default
ConsumingFails ==
    \E i \in 1..Len(inv.params) :
        ~IsNamed(i) /\ UnnamedBefore(i) + 1 > Len(inv.args) /\ ~HasDefault(i)

\* C1 as stated: each parameter is bound to its named argument, else to the
\* next positional argument not consumed by an earlier parameter, else to its
\* default, else the invocation fails.
C1_Consuming ==
    InvokedWithParams =>
        IF ConsumingFails THEN inv.calls = 0 /\ ~inv.out.ok
        ELSE /\ inv.calls = 1
             /\ \A i \in 1..Len(inv.params) :
                    inv.call_kwargs[inv.params[i].name] = ConsumingValue(i)

\* the binding the wrapper performs: the positional argument of parameter i is
\* the one at i's own position in the admissible list
PositionalValue(i) ==
    IF IsNamed(i) THEN inv.kwargs[inv.params[i].name]
    ELSE IF i <= Len(inv.args) THEN inv.args[i]
    ELSE inv.params[i].default

\* C1 (amended): each admissible parameter p_i is bound to its named argument if
\* one was supplied, else to the positional argument at position i if there is
\* one, else to its default, else the invocation fails with no call made.
C1_Binding ==
    InvokedWithParams =>
        IF Unresolved # {} THEN inv.calls = 0 /\ ~inv.out.ok
        ELSE /\ inv.calls = 1
             /\ DOMAIN inv.call_kwargs = ParamNames(inv.params)
             /\ \A i \in 1..Len(inv.params) :
                    inv.call_kwargs[inv.params[i].name] = PositionalValue(i)

\* a call mixing a named argument, a positional argument that is used and a
\* positional argument that is dropped because its parameter was named
C1_Witness ==
    /\ inv.tool = "pyint"
    /\ inv.args = <<PyInt(1), PyInt(2)>>
    /\ DOMAIN inv.kwargs = {"max_value"}
    /\ inv.calls = 1
    /\ inv.call_kwargs["max_value"] = inv.kwargs["max_value"]
    /\ inv.call_kwargs["min_value"] = PyInt(2)

\* C2: when some admissible parameter has no named argument, no positional
\* argument and no default, the wrapper raises TypeError naming the first such
\* parameter and the underlying callable is not called; pyint with only
\* max_value succeeds with min_value = 0, with neither it fails naming max_value.
C2_MissingRequired ==
    /\ (Invoked /\ Unresolved # {}) =>
          /\ inv.out = Raised("TypeError",
                              <<"Missing required argument: ", inv.params[FirstUnresolved].name>>)
          /\ inv.out.err.kind # "RuntimeError"
          /\ inv.calls = 0
          /\ inv.logs = <<>>
    /\ (inv.tool = "pyint" /\ inv.args = <<>> /\ DOMAIN inv.kwargs = {"max_value"}) =>
          /\ inv.calls = 1
          /\ inv.call_kwargs["min_value"] = PyInt(0)
          /\ inv.call_kwargs["max_value"] = inv.kwargs["max_value"]
    /\ (inv.tool = "pyint" /\ inv.args = <<>> /\ DOMAIN inv.kwargs \cap {"max_value", "min_value"} = {}) =>
          inv.out = Raised("TypeError", <<"Missing required argument: ", "max_value">>)

C2_Witness ==
    /\ inv.tool = "pyint"
    /\ inv.args = <<>>
    /\ inv.kwargs = EmptyDict
    /\ inv.out.err.kind = "TypeError"
    /\ inv.calls = 0

Contains(msg, part) == \E i \in 1..Len(msg) : msg[i] = part
ContainsSeq(msg, sub) == \E i \in 0..(Len(msg) - Len(sub)) : SubSeq(msg, i + 1, i + Len(sub)) = sub

----------------------------------------------------------------------------
(* Claims about registration *)

Registrations(name) == Cardinality({k \in DOMAIN tools : tools[k].name = name})

\* C4: however many passes have run, every name is registered with the
\* dispatcher at most once (a later pass makes no registration call for a name
\* an earlier pass registered).
C4_RegisteredOnce ==
    \A k \in DOMAIN tools : Registrations(tools[k].name) = 1

----------------------------------------------------------------------------
(* Claims about the value a wrapper returns *)

JsonScalar(v) == v.t \in {"str", "int", "float", "bool"}
JsonArrayItem(v) == v.t \in {"str", "int", "float"}
IsWireValue(v) ==
    \/ JsonScalar(v)
    \/ v.t = "list" /\ \A i \in 1..Len(v.v) : JsonArrayItem(v.v[i])

\* C5 as stated: every normal return of a wrapper is a JSON string, number,
\* boolean or array of strings/numbers, whatever the native value was.
C5_AlwaysWireValue ==
    (Invoked /\ inv.calls = 1 /\ inv.out.ok) => IsWireValue(inv.out.val)

\* the (name, native value) pairs a conversion rule of the serialiser covers
HasWireItems(v) == IsIterable(v) /\ \A i \in 1..Len(pylist(v)) : JsonArrayItem(pylist(v)[i])
Converted(name, v) ==
    \/ name \in {"uuid", "date", "date_time"}
    \/ name \in BINARY_NAMES /\ v.t = "bytes"
    \/ name = "latitude_longitude" /\ HasWireItems(v)

\* C5 (amended): a normal return of a wrapper is a JSON string, number, boolean
\* or array of strings/numbers when the name is uuid, date or date_time, when
\* the name is a binary format and the value is bytes, when the name is
\* latitude_longitude and the value is a sequence of strings/numbers, or when
\* the native value already is one; otherwise it is the list of the native
\* value's elements under latitude_longitude and the native value itself under
\* every other name, wire-safe or not.
C5_WireValue ==
    (Invoked /\ inv.calls = 1 /\ inv.out.ok) =>
        /\ Converted(inv.tool, inv.beh.val) => IsWireValue(inv.out.val)
        /\ (inv.tool # "latitude_longitude" /\ IsWireValue(inv.beh.val)) => IsWireValue(inv.out.val)
        /\ (~Converted(inv.tool, inv.beh.val) /\ inv.tool = "latitude_longitude") =>
              inv.out.val = PyList(pylist(inv.beh.val))
        /\ (~Converted(inv.tool, inv.beh.val) /\ inv.tool # "latitude_longitude") =>
              inv.out.val = inv.beh.val

C5_Witness ==
    /\ inv.tool = "png"
    /\ inv.beh.ok
    /\ inv.beh.val = PyBytes(<<0, 255, 104>>)
    /\ inv.out = Returned(PyStr(<<"A", "P", "9", "o">>))

----------------------------------------------------------------------------
(* Claims about serialise_result *)

\* C6: serialise_result never raises, whatever the name and the value.
C6_NeverRaises ==
    ser.done => ser.outA.ok /\ ser.outB.ok

\* C7 as stated: under one name the same conversion rule is applied to any two
\* values; the value's runtime type never selects the rule.
C7_NameAlone ==
    ser.done => ser.ruleA = ser.ruleB

\* C7 (amended): under one name two values get different conversions only when
\* the name is a binary format and exactly one of them is bytes (base64 against
\* unchanged), or the name is date / date_time and exactly one of them has an
\* isoformat (isoformat against str); under every other name the conversion is
\* the same for all values.
C7_RuleByName ==
    ser.done =>
        /\ ser.ruleA # ser.ruleB =>
              \/ ser.name \in BINARY_NAMES /\ ((ser.a.t = "bytes") # (ser.b.t = "bytes"))
              \/ /\ ser.name \in {"date", "date_time"}
                 /\ (ser.a.t \in {"date", "datetime"}) # (ser.b.t \in {"date", "datetime"})
        /\ ser.name \in {"uuid", "latitude_longitude", "name", "words"} => ser.ruleA = ser.ruleB
        /\ ser.a.t = ser.b.t => ser.ruleA = ser.ruleB

C7_Witness ==
    /\ ser.done
    /\ ser.name = "png"
    /\ ser.a.t = "bytes"
    /\ ser.b.t = "str"
    /\ ser.outA.val # ser.a
    /\ ser.outB.val = ser.b

----------------------------------------------------------------------------
(* Claims about parameter filtering *)

Range(q) == {q[i] : i \in 1..Len(q)}
IndexIn(q, x) == CHOOSE i \in 1..Len(q) : q[i] = x

SimpleClasses == {"int", "str", "float", "bool"}
WireSafeTypes ==
    {Cls(c) : c \in SimpleClasses}
    \cup {Alias("Union", <<Cls(c), Cls("NoneType")>>) : c \in SimpleClasses}
    \cup {Alias("Union", <<Cls("NoneType"), Cls(c)>>) : c \in SimpleClasses}

Qualifies(p) ==
    /\ p.kind \notin {"VAR_POSITIONAL", "VAR_KEYWORD"}
    /\ p.name \notin {"options", "Options", "OPTIONS"}
    /\ p.annotation # EmptyAnnotation
    /\ p.annotation \in WireSafeTypes

InDeclaredOrder(ad) ==
    \A i, j \in 1..Len(ad.params) :
        i < j => IndexIn(ad.declared, ad.params[i]) < IndexIn(ad.declared, ad.params[j])

\* C8: get_supported_params returns exactly the declared parameters that are no
\* variadic collector, are not named "options" in any case, have a declared
\* type and whose type is wire-safe, in declared order.
C8_ExactFilter ==
    \A k \in DOMAIN tools : tools[k].generated =>
        /\ \A i \in 1..Len(tools[k].declared) :
              Qualifies(tools[k].declared[i]) <=> tools[k].declared[i] \in Range(tools[k].params)
        /\ Range(tools[k].params) \subseteq Range(tools[k].declared)
        /\ Len(tools[k].params) = Cardinality({i \in 1..Len(tools[k].declared) : Qualifies(tools[k].declared[i])})
        /\ InDeclaredOrder(tools[k])

C8_Witness ==
    \E k \in DOMAIN tools :
        /\ tools[k].generated
        /\ Len(tools[k].declared) = 2
        /\ tools[k].declared[1].name = "Options"
        /\ tools[k].declared[2].kind = KWO
        /\ tools[k].params = <<tools[k].declared[2]>>

\* C9 as stated: the admissible list is an order-preserving subset of the
\* declared parameters and is never the whole declared list.
C9_ProperSubset ==
    \A k \in DOMAIN tools : tools[k].generated =>
        /\ Range(tools[k].params) \subseteq Range(tools[k].declared)
        /\ InDeclaredOrder(tools[k])
        /\ tools[k].params # tools[k].declared

\* C9 (amended): every admissible parameter is a declared parameter, and the
\* admissible parameters appear in declared order without duplicates; the list
\* may be the whole declared list.
C9_OrderedSubset ==
    \A k \in DOMAIN tools : tools[k].generated =>
        /\ \A i \in 1..Len(tools[k].params) : tools[k].params[i] \in Range(tools[k].declared)
        /\ IsInjective(tools[k].params)
        /\ InDeclaredOrder(tools[k])

C9_Witness ==
    \E k \in DOMAIN tools :
        /\ tools[k].generated
        /\ Len(tools[k].declared) = 2
        /\ tools[k].params = tools[k].declared

----------------------------------------------------------------------------
(* Claims about get_return_type *)

WireTypeTags == {"int", "float", "str", "bool", "List[str]", "List[float]"}

\* the table of C11, as a function on the names get_return_type is applied to
TagTable ==
    [n \in RetNames |->
        CASE n \in {"latitude_longitude"} -> "List[float]"
          [] n \in {"first_names", "last_names", "names", "usernames", "paragraphs",
                    "sentences", "slugs", "texts", "words"} -> "List[str]"
          [] n \in {"latitude", "longitude"} -> "float"
          [] n = "pybool" -> "bool"
          [] n \in {"pyint", "year"} -> "int"
          [] OTHER -> "str"]

----------------------------------------------------------------------------
(* Claims about what serialise_result returns *)

\* base64 decoding, <<-1>> for text that is not valid base64
B64Index(c) == IF \E i \in 1..64 : B64Alphabet[i] = c
               THEN (CHOOSE i \in 1..64 : B64Alphabet[i] = c) - 1
               ELSE -1

B64Group(g) ==
    LET i1 == B64Index(g[1])
        i2 == B64Index(g[2])
        i3 == B64Index(g[3])
        i4 == B64Index(g[4])
    IN  IF i1 < 0 \/ i2 < 0 THEN <<-1>>
        ELSE IF g[3] = "=" /\ g[4] = "=" THEN <<(i1 * 4) + (i2 \div 16)>>
        ELSE IF i3 < 0 THEN <<-1>>
        ELSE IF g[4] = "=" THEN <<(i1 * 4) + (i2 \div 16), ((i2 % 16) * 16) + (i3 \div 4)>>
        ELSE IF i4 < 0 THEN <<-1>>
        ELSE <<(i1 * 4) + (i2 \div 16), ((i2 % 16) * 16) + (i3 \div 4), ((i3 % 4) * 64) + i4>>

RECURSIVE b64decode(_)
b64decode(text) ==
    IF Len(text) = 0 THEN <<>>
    ELSE IF Len(text) < 4 THEN <<-1>>
    ELSE B64Group(SubSeq(text, 1, 4)) \o b64decode(SubSeq(text, 5, Len(text)))

\* C12: under a binary-format name a byte sequence is serialised to a string
\* whose base64 decoding is the byte sequence.
C12_Base64RoundTrip ==
    (ser.done /\ ser.name \in BINARY_NAMES /\ ser.a.t = "bytes") =>
        /\ ser.outA.ok
        /\ ser.outA.val.t = "str"
        /\ b64decode(ser.outA.val.v) = ser.a.v

C12_Witness ==
    /\ ser.done
    /\ ser.name = "zip"
    /\ ser.a = PyBytes(<<255, 0>>)
    /\ ser.outA.val = PyStr(<<"/", "w", "A", "=">>)

\* reading text back: decimal and hexadecimal numerals
DigitOf(c) == IF \E i \in 1..16 : HexChars[i] = c
              THEN (CHOOSE i \in 1..16 : HexChars[i] = c) - 1
              ELSE -1
RECURSIVE DecimalOf(_)
DecimalOf(text) ==
    IF Len(text) = 0 THEN 0
    ELSE (DecimalOf(SubSeq(text, 1, Len(text) - 1)) * 10) + DigitOf(text[Len(text)])
HexDigitsOf(text) == [i \in 1..Len(text) |-> DigitOf(text[i])]

\* YYYY-MM-DD
IsIsoDate(text, y, m, d) ==
    /\ Len(text) = 10
    /\ text[5] = "-" /\ text[8] = "-"
    /\ DecimalOf(SubSeq(text, 1, 4)) = y
    /\ DecimalOf(SubSeq(text, 6, 7)) = m
    /\ DecimalOf(SubSeq(text, 9, 10)) = d

\* THH:MM:SS
IsIsoTime(text, h, mi, sec) ==
    /\ Len(text) = 9
    /\ text[1] = "T" /\ text[4] = ":" /\ text[7] = ":"
    /\ DecimalOf(SubSeq(text, 2, 3)) = h
    /\ DecimalOf(SubSeq(text, 5, 6)) = mi
    /\ DecimalOf(SubSeq(text, 8, 9)) = sec

\* 8-4-4-4-12 lowercase hexadecimal digits
IsCanonicalUuid(text, h) ==
    /\ Len(text) = 36
    /\ text[9] = "-" /\ text[14] = "-" /\ text[19] = "-" /\ text[24] = "-"
    /\ HexDigitsOf(SubSeq(text, 1, 8) \o SubSeq(text, 10, 13) \o SubSeq(text, 15, 18)
                   \o SubSeq(text, 20, 23) \o SubSeq(text, 25, 36)) = h

\* C13: serialise_result follows the name-keyed table: uuid gives the UUID's
\* canonical string; date / date_time give the ISO-8601 string of a date or
\* date-time (2024-01-02 -> "2024-01-02", 2024-01-02T03:04:05 ->
\* "2024-01-02T03:04:05"); latitude_longitude gives the pair's two elements in
\* order; a binary name with a non-bytes value and every other name give the
\* value unchanged.
C13_RuleTable ==
    ser.done =>
        /\ (ser.name = "uuid" /\ ser.a.t = "UUID") =>
              /\ ser.outA.ok /\ ser.outA.val.t = "str"
              /\ IsCanonicalUuid(ser.outA.val.v, ser.a.v)
        /\ (ser.name \in {"date", "date_time"} /\ ser.a.t = "date") =>
              /\ ser.outA.ok /\ ser.outA.val.t = "str"
              /\ IsIsoDate(ser.outA.val.v, ser.a.v[1], ser.a.v[2], ser.a.v[3])
        /\ (ser.name \in {"date", "date_time"} /\ ser.a.t = "datetime" /\ ser.a.v[7] = 0) =>
              /\ ser.outA.ok /\ ser.outA.val.t = "str"
              /\ Len(ser.outA.val.v) = 19
              /\ IsIsoDate(SubSeq(ser.outA.val.v, 1, 10), ser.a.v[1], ser.a.v[2], ser.a.v[3])
              /\ IsIsoTime(SubSeq(ser.outA.val.v, 11, 19), ser.a.v[4], ser.a.v[5], ser.a.v[6])
        /\ (ser.name = "date" /\ ser.a = PyDate(2024, 1, 2)) =>
              ser.outA = Returned(PyStr(<<"2", "0", "2", "4", "-", "0", "1", "-", "0", "2">>))
        /\ (ser.name = "date_time" /\ ser.a = PyDateTime(2024, 1, 2, 3, 4, 5, 0)) =>
              ser.outA = Returned(PyStr(<<"2", "0", "2", "4", "-", "0", "1", "-", "0", "2", "T",
                                          "0", "3", ":", "0", "4", ":", "0", "5">>))
        /\ (ser.name = "latitude_longitude" /\ ser.a.t = "tuple" /\ Len(ser.a.v) = 2) =>
              /\ ser.outA.ok /\ ser.outA.val.t = "list"
              /\ ser.outA.val.v = <<ser.a.v[1], ser.a.v[2]>>
        /\ (ser.name \in BINARY_NAMES /\ ser.a.t # "bytes") => ser.outA = Returned(ser.a)
        /\ ser.name \notin (BINARY_NAMES \cup {"uuid", "date", "date_time", "latitude_longitude"}) =>
              ser.outA = Returned(ser.a)

C13_Witness ==
    /\ ser.done
    /\ ser.name = "date_time"
    /\ ser.a = PyDateTime(1999, 12, 31, 23, 59, 58, 0)
    /\ ser.outA.val.v[11] = "T"

----------------------------------------------------------------------------
(* Claims about what the wrapper forwards and returns *)

\* C14: when the binding succeeds the underlying callable is called once, with
\* keyword arguments for exactly the admissible parameter names (no surplus
\* positional argument, no named argument of another name) holding the bound
\* values, and the caller gets serialise_result of the returned value under
\* the adapter's own name.
C14_ForwardAndReturn ==
    (InvokedWithParams /\ Unresolved = {}) =>
        /\ inv.calls = 1
        /\ DOMAIN inv.call_kwargs = ParamNames(inv.params)
        /\ \A n \in DOMAIN inv.kwargs : n \notin ParamNames(inv.params) => n \notin DOMAIN inv.call_kwargs
        /\ Cardinality(DOMAIN inv.call_kwargs) = Len(inv.params)
        /\ \A i \in 1..Len(inv.params) :
              inv.call_kwargs[inv.params[i].name] = PositionalValue(i)
        /\ (inv.beh.ok /\ inv.out.ok) => inv.out = serialise_result(inv.tool, inv.beh.val)

\* three positional arguments for two parameters, a stray named argument, a
\* named argument for a declared but inadmissible parameter
C14_Witness ==
    /\ inv.tool = "text"
    /\ Len(inv.args) = 3
    /\ DOMAIN inv.kwargs = {"extra", "options"}
    /\ inv.calls = 1
    /\ DOMAIN inv.call_kwargs = {"nb_chars", "suffix"}
    /\ inv.beh = Returned(PyInt(5))
    /\ inv.out = Returned(PyInt(5))

----------------------------------------------------------------------------
(* Claims about which names a registration pass registers *)

IsPublicCallable(p) == ~startswith_underscore(p.name) /\ p.callable

\* C15: after the first registration pass (no tool was registered before it),
\* a provider name has a registered adapter exactly when it does not start
\* with "_" and its attribute is callable.
C15_RegisteredIff ==
    pass = 1 =>
        \A i \in DOMAIN providers :
            (Registrations(providers[i].name) >= 1) <=> IsPublicCallable(providers[i])

----------------------------------------------------------------------------
(* Claims about the order of registration and serving *)

RegistrationComplete ==
    /\ run.idx > Len(providers)
    /\ \A i \in DOMAIN providers :
          (IsPublicCallable(providers[i]) /\ ~hasattr(mcpAttrs, providers[i].name))
              => Registrations(providers[i].name) >= 1

Serving == run.pc = "serving"

\* C16: in a run of the process the dispatcher serves (in any transport
\* mode) only after the registration pass has visited every provider name; no
\* wrapper is invoked while the pass is in progress, and once serving has
\* started the registered adapters never change.
C16_RegisteredBeforeServing ==
    /\ [](Serving => RegistrationComplete)
    /\ [](Invoked => RegistrationComplete)
    /\ [][Serving => (tools' = tools /\ Serving')]_vars

C16_Witness ==
    /\ Serving
    /\ run.transport = "sse"
    /\ inv.tool = "uuid"
    /\ inv.calls = 1
    /\ Registrations("pyint") = 1

----------------------------------------------------------------------------
(* Claims about concurrent invocations *)

Finished(t) == threads[t].pc = "done"
InFlight(t) == threads[t].pc # "idle"
SameRequest(t, u) ==
    /\ threads[t].ad = threads[u].ad
    /\ threads[t].rec.args = threads[u].rec.args
    /\ threads[t].rec.kwargs = threads[u].rec.kwargs
    /\ threads[t].rec.beh = threads[u].rec.beh

\* the outcome of a finished invocation is the one the wrapper gives when it
\* runs alone on the same arguments
OutcomeIsOwn ==
    \A t \in 1..MaxThreads :
        Finished(t) =>
            threads[t].rec = tool_fn(threads[t].ad, threads[t].rec.args,
                                     threads[t].rec.kwargs, threads[t].rec.beh)

\* two finished invocations of one adapter with the same arguments and the
\* same behaviour of the callable have the same bound arguments and outcome
SameRequestSameOutcome ==
    \A t, u \in 1..MaxThreads :
        (Finished(t) /\ Finished(u) /\ SameRequest(t, u)) =>
            /\ threads[t].rec.call_kwargs = threads[u].rec.call_kwargs
            /\ threads[t].rec.out = threads[u].rec.out

\* a step of an invocation changes neither the registry nor any adapter, nor
\* the adapter, the arguments or the outcome of another invocation
InvocationStepIsLocal ==
    (threads' # threads) =>
        /\ tools' = tools
        /\ providers' = providers
        /\ mcpAttrs' = mcpAttrs
        /\ Cardinality({t \in 1..MaxThreads : threads'[t] # threads[t]}) = 1
        /\ \A t \in 1..MaxThreads :
              (InFlight(t) /\ threads'[t].pc # "idle") =>
                  /\ threads'[t].ad = threads[t].ad
                  /\ threads'[t].rec.args = threads[t].rec.args
                  /\ threads'[t].rec.kwargs = threads[t].rec.kwargs

\* C17: under every interleaving of the steps of concurrent invocations, each
\* invocation's bound arguments and outcome are those of its own arguments
\* and its adapter alone, whether it succeeds, misses an argument or fails in
\* execution, and no step of an invocation changes the registry, an adapter or
\* another invocation.
C17_Independent ==
    /\ [](OutcomeIsOwn /\ SameRequestSameOutcome)
    /\ [][InvocationStepIsLocal]_vars

\* two invocations of one adapter in flight at once with different
\* arguments: one finished in execution failure, the other bound and waiting
C17_Witness ==
    /\ threads[1].ad.name = "pyint"
    /\ threads[2].ad.name = "pyint"
    /\ threads[1].pc = "bound"
    /\ threads[1].rec.call_kwargs = ("max_value" :> PyInt(1)) @@ ("min_value" :> PyInt(0))
    /\ Finished(2)
    /\ threads[2].rec.call_kwargs = ("max_value" :> PyInt(7)) @@ ("min_value" :> PyInt(0))
    /\ threads[2].rec.out.err.kind = "RuntimeError"
    /\ pass = 2

----------------------------------------------------------------------------
(* Claims about null named arguments *)

NamedNull(i) ==
    /\ inv.params[i].name \in DOMAIN inv.kwargs
    /\ inv.kwargs[inv.params[i].name] = PyNone

MissingError(n) == Raised("TypeError", <<"Missing required argument: ", n>>)

\* C18: a parameter supplied by name with the value None is never reported
\* missing, and when the binding succeeds it is forwarded as None: not as its
\* default, not as the positional argument at its position.
C18_NullIsBound ==
    InvokedWithParams =>
        \A i \in 1..Len(inv.params) :
            NamedNull(i) =>
                /\ inv.out # MissingError(inv.params[i].name)
                /\ inv.calls = 1 =>
                      /\ inv.params[i].name \in DOMAIN inv.call_kwargs
                      /\ inv.call_kwargs[inv.params[i].name] = PyNone

\* pyint(max_value=None, min_value=None) called with two positional
\* arguments as well: max_value is required, min_value has the default 0
C18_Witness ==
    /\ inv.tool = "pyint"
    /\ inv.args = <<PyInt(1), PyInt(2)>>
    /\ inv.kwargs = ("max_value" :> PyNone) @@ ("min_value" :> PyNone)
    /\ inv.calls = 1
    /\ inv.call_kwargs = ("max_value" :> PyNone) @@ ("min_value" :> PyNone)
    /\ inv.out = Returned(PyInt(5))

----------------------------------------------------------------------------
(* Claims about failures of serialisation inside a wrapper *)

SerialisationFails ==
    /\ Invoked
    /\ inv.calls = 1
    /\ inv.beh.ok
    /\ ~serialise_result(inv.tool, inv.beh.val).ok

\* the arguments fit the wrapper's own def: def tool_fn() takes none,
\* def tool_fn(*args, **kwargs) takes any
MatchesSignature ==
    Len(inv.params) = 0 => (Len(inv.args) = 0 /\ DOMAIN inv.kwargs = {})

IsMissingError(out) ==
    \E i \in 1..Len(inv.params) : out = MissingError(inv.params[i].name)

IsUniformError(out) ==
    /\ out.err.kind = "RuntimeError"
    /\ Len(out.err.msg) >= 3
    /\ SubSeq(out.err.msg, 1, 3) = <<"fake.py error in ", inv.tool, "(): ">>

\* C19: when the callable returns and serialising its value raises, the
\* caller gets the RuntimeError naming the tool and carrying the serialiser's
\* message, and one failure is logged; and an error (an Exception) that leaves
\* a wrapper called with arguments its def accepts is either the
\* missing-required-argument TypeError or that RuntimeError.
C19_SerialisationGuarded ==
    /\ SerialisationFails =>
          /\ IsUniformError(inv.out)
          /\ inv.out.err.msg = <<"fake.py error in ", inv.tool, "(): ">>
                                   \o serialise_result(inv.tool, inv.beh.val).err.msg
          /\ Len(inv.logs) = 1
          /\ Contains(inv.logs[1], inv.tool)
    /\ (Invoked /\ MatchesSignature /\ ~inv.out.ok /\ IsException(inv.out.err.kind)) =>
          \/ inv.calls = 0 /\ IsMissingError(inv.out)
          \/ inv.calls = 1 /\ IsUniformError(inv.out) /\ Len(inv.logs) = 1

\* latitude_longitude() returning an int: list(5) raises inside the try
C19_Witness ==
    /\ inv.tool = "latitude_longitude"
    /\ inv.beh = Returned(PyInt(5))
    /\ inv.calls = 1
    /\ inv.out = Raised("RuntimeError", <<"fake.py error in ", "latitude_longitude", "(): ",
                                          "'", "int", "' object is not iterable">>)
    /\ Len(inv.logs) = 1

====
